---------------------------- MODULE Spec2Model ----------------------------
(* TermHarvest: the grid of AquaCrop sectors (aquacrop_manager.py) and the  *)
(* turn-based task budget, task list and journal of the game screen         *)
(* (main.py), as one state machine.  One action per user command.           *)
EXTENDS Integers, Sequences, FiniteSets, TLC

(***************************************************************************)
(* Bounds of the model.                                                    *)
(***************************************************************************)
\* the engine's simulation period, in days after sim_start_time
SimEndDay == 45
\* the engine's growing season: harvest on this day of a season, then the
\* clock skips the off-season to the next planting date
SeasonDays == 40
OffSeasonDays == 5
\* task ids are handed out up to this number
MaxTaskId == 3

(***************************************************************************)
(* Program constants.                                                      *)
(***************************************************************************)
max_activity_points == 4
session_days == 30
\* taw_penalty = 0.03, as the percentage kept per day: 1 - 0.03
taw_keep_percent == 97
\* sectors given the bad soil by initialize_farm
DrySectorCount == 2
\* sim_start_time = 1979/10/01
StartYear == 1979
StartMonth == 10
StartDay == 1
\* field capacity, the initial water content, in thousandths
InitialTh == 1000

\* AquaCropManager(grid_size): rows and columns of the farm.  The game builds
\* the default 4 x 4 farm; the model of the game builds a 1 x 3 farm, of two
\* sectors with the bad soil and one with the good.
GameGridSize == <<1, 3>>

\* the grid sizes the manager is built with in ManagerSpec
GridSizes == {<<1, 1>>, <<1, 2>>, <<1, 3>>, <<2, 2>>, <<2, 3>>, <<3, 2>>, <<4, 4>>}

alphabet == <<"A", "B", "C", "D", "E", "F", "G", "H", "I", "J", "K", "L", "M">>

\* Python's None, True and False as returned values
None == "None"
True == "True"
False == "False"
\* no modal screen pushed
NoModal == <<>>
\* a datetime | None value is the sequence of the one datetime, or the empty
\* sequence for None
NoSession == <<>>

VARIABLES
    grid_size,          \* AquaCropManager.grid_size
    weather,            \* AquaCropManager.weather
    sectors,            \* AquaCropManager.sectors: sector_id -> FarmSector
    dry_sectors,        \* AquaCropManager.dry_sectors
    previous_session,   \* AquaCropManager.previous_session
    current_session,    \* AquaCropManager.current_session
    game_state,         \* GameState (date, season, activity points)
    tasks,              \* TaskListAP.tasks
    next_task_id,       \* TaskListAP.next_task_id
    entries,            \* Journal.entries
    ui                  \* what the last command showed the user

vars == <<grid_size, weather, sectors, dry_sectors, previous_session, current_session,
          game_state, tasks, next_task_id, entries, ui>>

(***************************************************************************)
(* Generic helpers.                                                        *)
(***************************************************************************)
Max(a, b) == IF a >= b THEN a ELSE b

RECURSIVE SumCost(_)
SumCost(ts) == IF ts = <<>> THEN 0 ELSE ts[1].cost + SumCost(Tail(ts))

RemoveAt(s, i) == [j \in 1..(Len(s) - 1) |-> IF j < i THEN s[j] ELSE s[j + 1]]

(***************************************************************************)
(* Dates.  A datetime is the number of days after sim_start_time; its      *)
(* strftime("%Y-%m-%d") text is the triple <<year, month, day>>.           *)
(***************************************************************************)
IsLeap(y) == (y % 4 = 0 /\ y % 100 # 0) \/ y % 400 = 0

DaysInMonth(y, m) ==
    IF m = 2 THEN (IF IsLeap(y) THEN 29 ELSE 28)
    ELSE IF m \in {4, 6, 9, 11} THEN 30 ELSE 31

RECURSIVE AddDays(_, _)
AddDays(ymd, n) ==
    LET y == ymd[1]
        m == ymd[2]
        d == ymd[3]
        left == DaysInMonth(y, m) - d
    IN IF n <= left THEN <<y, m, d + n>>
       ELSE AddDays(IF m = 12 THEN <<y + 1, 1, 1>> ELSE <<y, m + 1, 1>>,
                    n - left - 1)

strftime(day) == AddDays(<<StartYear, StartMonth, StartDay>>, day)


(***************************************************************************)
(* The AquaCrop engine behind one sector (AquaCropModel): an external      *)
(* library, modelled at the interface the manager uses.  _clock_struct is  *)
(* the clock, _init_cond the crop and soil state.                          *)
(***************************************************************************)
\* AquaCropModel(...) followed by model._initialize()
AquaCropModel(soil_type) ==
    [soil              |-> soil_type,
     time_step_counter |-> 0,
     step_start_time   |-> 0,
     season_start      |-> 0,
     season_counter    |-> 0,
     model_is_finished |-> FALSE,
     th                |-> InitialTh,
     canopy_cover      |-> 0,
     biomass           |-> 0]

\* model._perform_timestep(): one day forward; at harvest the clock skips the
\* off-season and the season counter goes up; the run ends at sim_end_time.
\* The day's growth is computed from the water content th it finds.
perform_timestep(m) ==
    LET next    == m.step_start_time + 1
        harvest == next - m.season_start >= SeasonDays
        jumped  == IF harvest THEN next + OffSeasonDays ELSE next
        start   == IF jumped >= SimEndDay THEN SimEndDay ELSE jumped
        cc      == IF harvest THEN 0
                   ELSE ((next - m.season_start) * m.th) \div InitialTh
    IN [m EXCEPT !.time_step_counter = m.time_step_counter + 1,
                 !.step_start_time   = start,
                 !.season_start      = IF harvest THEN start ELSE m.season_start,
                 !.season_counter    = IF harvest THEN m.season_counter + 1
                                       ELSE m.season_counter,
                 !.model_is_finished = (start >= SimEndDay),
                 !.canopy_cover      = cc,
                 !.biomass           = m.biomass + cc]

(***************************************************************************)
(* AquaCropManager.                                                        *)
(***************************************************************************)
\* as SectorId, with the letter taken from the column and the number from the row
SectorId_transposed(row, col) == <<alphabet[col + 1], row + 1>>

\* f"{alphabet[row]}{col+1}" for the 0-based row and col
SectorId(row, col) == <<alphabet[row + 1], col + 1>>

\* [(i, j) for i in range(rows) for j in range(cols)]
all_points(gsz) ==
    [k \in 1..(gsz[1] * gsz[2]) |-> <<(k - 1) \div gsz[2], (k - 1) % gsz[2]>>]

\* the keys of the sectors dict, in insertion order
SectorOrder(gsz) ==
    [k \in 1..Len(all_points(gsz)) |->
        SectorId(all_points(gsz)[k][1], all_points(gsz)[k][2])]

SectorIds(gsz) == {SectorOrder(gsz)[k] : k \in 1..Len(SectorOrder(gsz))}

\* the outcomes of random.sample(all_points, 2); none when there are fewer
\* than two points (ValueError: the manager is not built)
DrySamples(gsz) ==
    {s \in SUBSET (1..Len(all_points(gsz))) : Cardinality(s) = DrySectorCount}

\* as InitialDrySectors, with the list closed after its first sector
InitialDrySectors_first_only(gsz, sample) ==
    LET first == CHOOSE k \in sample : \A j \in sample : k <= j
    IN <<SectorOrder(gsz)[first]>>

\* the dry_sectors list initialize_farm builds, for the sampled points
InitialDrySectors(gsz, sample) ==
    LET RECURSIVE Pick(_)
        Pick(k) == IF k > Len(all_points(gsz)) THEN <<>>
                   ELSE IF k \in sample THEN <<SectorOrder(gsz)[k]>> \o Pick(k + 1)
                   ELSE Pick(k + 1)
    IN Pick(1)

InDrySectors(id, dry) == \E k \in 1..Len(dry) : dry[k] = id

\* the sectors dict initialize_farm builds
InitialSectors(gsz, sample) ==
    [id \in SectorIds(gsz) |->
        LET k == CHOOSE i \in 1..Len(SectorOrder(gsz)) : SectorOrder(gsz)[i] = id
        IN [model |-> AquaCropModel(IF k \in sample THEN "Sand" ELSE "SandyLoam"),
            sector_id |-> id,
            canopy_cover_history |-> <<>>]]

\* sector.model._init_cond.th = sector.model._init_cond.th * (1 - self.taw_penalty)
TawPenalty(m) == [m EXCEPT !.th = (m.th * taw_keep_percent) \div 100]

\* as RecordTimestep, with the history started anew from the day's reading
RecordTimestep_overwrites(sector, m) ==
    [sector EXCEPT !.model = m,
                   !.canopy_cover_history = <<m.canopy_cover>>]

\* the sector with the model after its timestep, the day's canopy cover
\* appended to its history
RecordTimestep(sector, m) ==
    [sector EXCEPT !.model = m,
                   !.canopy_cover_history =
                       Append(sector.canopy_cover_history, m.canopy_cover)]

\* as StepSector, without the test of model_is_finished
StepSector_unguarded(sector, dry) ==
    RecordTimestep(sector,
        perform_timestep(IF InDrySectors(sector.sector_id, dry)
                         THEN TawPenalty(sector.model)
                         ELSE sector.model))

\* as StepSector, with the penalty applied after the timestep of the day
StepSector_penalty_after(sector, dry) ==
    IF ~sector.model.model_is_finished
    THEN RecordTimestep(sector,
            IF InDrySectors(sector.sector_id, dry)
            THEN TawPenalty(perform_timestep(sector.model))
            ELSE perform_timestep(sector.model))
    ELSE sector

\* the body of the inner loop of step_simulation for one sector
StepSector(sector, dry) ==
    IF ~sector.model.model_is_finished
    THEN RecordTimestep(sector,
            perform_timestep(IF InDrySectors(sector.sector_id, dry)
                             THEN TawPenalty(sector.model)
                             ELSE sector.model))
    ELSE sector

\* as StepDay, with the sectors of the bad soil advanced a second time
StepDay_dry_twice(secs, dry) ==
    [id \in DOMAIN secs |->
        IF InDrySectors(id, dry)
        THEN StepSector(StepSector(secs[id], dry), dry)
        ELSE StepSector(secs[id], dry)]

\* for sector in self.sectors.values(): ...   (one day; each pass of the loop
\* reads and writes its own sector only)
StepDay(secs, dry) == [id \in DOMAIN secs |-> StepSector(secs[id], dry)]

\* as StepDays, with one day more than asked for
RECURSIVE StepDays_extra_day(_, _, _)
StepDays_extra_day(secs, dry, days) ==
    IF days < 0 \/ DOMAIN secs = {} THEN secs
    ELSE StepDays_extra_day(StepDay(secs, dry), dry, days - 1)

\* for day in range(days): ...
RECURSIVE StepDays(_, _, _)
StepDays(secs, dry, days) ==
    IF days <= 0 \/ DOMAIN secs = {} THEN secs
    ELSE StepDays(StepDay(secs, dry), dry, days - 1)

\* next(iter(self.sectors.values())): the sector inserted first
first_sector(secs) == secs[SectorId(0, 0)]

\* get_session_date: the clock of the first sector
get_session_date(secs) == first_sector(secs).model.step_start_time

\* get_current_season
get_current_season(secs) ==
    IF DOMAIN secs = {} THEN 1
    ELSE first_sector(secs).model.season_counter + 1

\* get_current_date
get_current_date(secs) ==
    IF DOMAIN secs = {} THEN <<StartYear, StartMonth, StartDay>>
    ELSE strftime(first_sector(secs).model.step_start_time)

\* get_canopy_cover_values
get_canopy_cover_values(secs) ==
    [id \in DOMAIN secs |-> secs[id].canopy_cover_history]

\* get_current_canopy_cover
get_current_canopy_cover(secs) ==
    [id \in DOMAIN secs |-> secs[id].model.canopy_cover]

\* get_current_biomass
get_current_biomass(secs) ==
    [id \in DOMAIN secs |-> secs[id].model.biomass]

\* get_current_hydration
get_current_hydration(secs) ==
    [id \in DOMAIN secs |-> secs[id].model.biomass]

\* the days tunis_climate.txt, the weather file of the aquacrop package, can
\* hold a record of: from sim_start_time to a session past sim_end_time
WeatherDates == 0..(SimEndDay + session_days)

\* the daily records of the file
tunis_climate ==
    [d \in WeatherDates |->
        [Date |-> d, MinTemp |-> 5 + (d % 7), MaxTemp |-> 15 + (d % 11),
         Precipitation |-> d % 3]]

\* the day of the last record of the file: the file is not part of the
\* repository; the engine needs it to cover the simulation period
WeatherEnds == SimEndDay..(SimEndDay + session_days)

\* prepare_weather(get_filepath('tunis_climate.txt')): the frame of the
\* records of a file that ends on the day last, one row per day
prepare_weather(last) == [d \in 0..last |-> tunis_climate[d]]

\* the sum of a column of the frame over the rows of the given dates
RECURSIVE ColumnSum(_, _, _)
ColumnSum(wdf, dates, column) ==
    IF dates = {} THEN 0
    ELSE LET d == CHOOSE x \in dates : TRUE
         IN wdf[d][column] + ColumnSum(wdf, dates \ {d}, column)

\* np.average of a column: the sum over the count, nan for no rows
np_average(wdf, dates, column) ==
    IF dates = {} THEN <<"nan">>
    ELSE <<ColumnSum(wdf, dates, column), Cardinality(dates)>>

\* average * 30
TimesThirty(avg) == IF avg = <<"nan">> THEN avg ELSE <<avg[1] * 30, avg[2]>>

\* a SessionWeather | None value: the sequence of the one SessionWeather, or
\* the empty sequence for None
NoSessionWeather == <<>>

SessionWeather(session_date, min_temp, max_temp, precipitation) ==
    [session_date |-> session_date, min_temp |-> min_temp,
     max_temp |-> max_temp, precipitation |-> precipitation]

\* as ForecastDates, with the window [current_session, current_session + 30)
ForecastDates_half_open(wdf, cur) ==
    {d \in DOMAIN wdf : d >= cur /\ d < cur + session_days}

\* the rows of the forecast: Date > current_session and
\* Date <= current_session + timedelta(days = session_days)
ForecastDates(wdf, cur) ==
    {d \in DOMAIN wdf : d > cur /\ d <= cur + session_days}

\* the forecast weather_data builds, lines 233-249
ForecastSessionWeather(wdf, cur) ==
    SessionWeather(cur,
                   np_average(wdf, ForecastDates(wdf, cur), "MinTemp"),
                   np_average(wdf, ForecastDates(wdf, cur), "MaxTemp"),
                   TimesThirty(np_average(wdf, ForecastDates(wdf, cur),
                                          "Precipitation")))

\* as weather_data, with a record of zeros for the missing previous session
weather_data_zeros(self) ==
    [self |-> self, raised |-> None,
     ret |-> <<<<SessionWeather(self.current_session, 0, 0, 0)>>,
               ForecastSessionWeather(self.weather, self.current_session)>>]

\* as weather_data, with the session just shown remembered as the previous one
weather_data_remembers(self) ==
    [self |-> [self EXCEPT !.previous_session = <<self.current_session>>],
     raised |-> None,
     ret |-> <<NoSessionWeather, ForecastSessionWeather(self.weather, self.current_session)>>]

\* weather_data: the manager after the call, the exception raised, and the
\* pair returned.  With a previous session the filter reads the names
\* previous_session and current_session, which are not bound: NameError.
weather_data(self) ==
    IF self.previous_session = NoSession
    THEN [self |-> self, raised |-> None,
          ret |-> <<NoSessionWeather, ForecastSessionWeather(self.weather, self.current_session)>>]
    ELSE [self |-> self, raised |-> "NameError", ret |-> None]

(***************************************************************************)
(* GameState.                                                              *)
(***************************************************************************)
\* as update_from_aquacrop, with previous_season assigned after current_season
update_from_aquacrop_previous_last(gs, secs) ==
    [gs EXCEPT !.previous_season = get_current_season(secs),
               !.current_season  = get_current_season(secs),
               !.date_str        = get_current_date(secs),
               !.season_str      = <<"Season", get_current_season(secs)>>]

\* GameState.update_from_aquacrop
update_from_aquacrop(gs, secs) ==
    [gs EXCEPT !.previous_season = gs.current_season,
               !.current_season  = get_current_season(secs),
               !.date_str        = get_current_date(secs),
               !.season_str      = <<"Season", get_current_season(secs)>>]

season_changed(gs) == gs.current_season # gs.previous_season

\* as reset_activity_points, with the reset forgotten
reset_activity_points_kept(gs) == gs

reset_activity_points(gs) == [gs EXCEPT !.activity_points_used = 0]

\* as can_add_task, with the cost of the new task left out of the sum
can_add_task_without_cost(gs, task_cost) ==
    gs.activity_points_used <= gs.max_activity_points

\* as can_add_task, with < for <=
can_add_task_strict(gs, task_cost) ==
    gs.activity_points_used + task_cost < gs.max_activity_points

can_add_task(gs, task_cost) ==
    gs.activity_points_used + task_cost <= gs.max_activity_points

\* as add_activity_points, with the points of the new task not charged
add_activity_points_free(gs, cost) == gs

add_activity_points(gs, cost) ==
    [gs EXCEPT !.activity_points_used = gs.activity_points_used + cost]

\* GameState(aquacrop_manager): the defaults, then __post_init__
InitialGameState(secs) ==
    update_from_aquacrop(
        [date_str |-> <<>>, season_str |-> <<>>,
         current_season |-> 1, previous_season |-> 1,
         activity_points_used |-> 0,
         max_activity_points |-> max_activity_points], secs)

(***************************************************************************)
(* Command text.  A command is the sequence of its whitespace-separated    *)
(* words after the "/task add" or "/task remove" prefix.                   *)
(***************************************************************************)
\* str.lower() and str.upper() on the words the model types
lower(w) ==
    CASE w = "Investigate" -> "investigate"
      [] w = "Irrigate"    -> "irrigate"
      [] w = "T"           -> "t"
      [] w = "A1"          -> "a1"
      [] w = "B2"          -> "b2"
      [] OTHER             -> w

upper(w) ==
    CASE w = "a1" -> "A1"
      [] w = "b2" -> "B2"
      [] w = "t"  -> "T"
      [] w = "x"  -> "X"
      [] w = "investigate" -> "INVESTIGATE"
      [] w = "irrigate"    -> "IRRIGATE"
      [] w = "pesticide"   -> "PESTICIDE"
      [] w = "lots"        -> "LOTS"
      [] OTHER      -> w

\* int(text) raises ValueError unless the text is a number
IsIntText(w) == w \in {"10", "010", "25"}

\* int(text)
int(w) ==
    CASE w = "10"  -> 10
      [] w = "010" -> 10
      [] w = "25"  -> 25

\* what the user may type after "/task add "
AddCommands ==
    { <<"investigate", "a1">>, <<"Irrigate", "a1", "010">>, <<"pesticide", "b2">>,
      <<"investigate">>, <<"irrigate", "a1", "lots">>, <<"harvest", "a1">> }

\* what the user may type after "/task remove ": nothing, or a letter and a number
RemoveCommands ==
    { <<>>, <<"T", 1>>, <<"1", 1>> } \cup { <<"t", n>> : n \in 1..(MaxTaskId + 1) }

(***************************************************************************)
(* Task, TaskListAP.                                                       *)
(***************************************************************************)
\* f"T{n}"
TaskIdStr(n) == <<"T", n>>

\* Task(id, description, cost, task_type, added_date) with __post_init__
Task(id, description, cost, task_type, added_date) ==
    [id |-> id, description |-> description, cost |-> cost,
     task_type |-> task_type, cost_str |-> <<cost, "AP">>,
     added_date |-> added_date]

\* as NextTaskIdAfterAdd, with the increment forgotten
NextTaskIdAfterAdd_same(nid) == nid

\* next_task_id after a task was appended
NextTaskIdAfterAdd(nid) == nid + 1

\* as add_task, with the id counter advanced before the budget is checked
add_task_id_first(gs, ts, nid, description, task_type, cost) ==
    IF ~can_add_task(gs, cost)
    THEN [tasks |-> ts, next_task_id |-> nid + 1, game_state |-> gs,
          ret |-> False, bell |-> TRUE,
          modal |-> <<"ActivityPointsModal", gs.activity_points_used,
                      gs.max_activity_points, cost>>]
    ELSE [tasks |-> Append(ts, [id |-> <<"T", nid>>, description |-> description,
                                cost |-> cost, task_type |-> task_type,
                                cost_str |-> <<cost, "AP">>,
                                added_date |-> gs.date_str]),
          next_task_id |-> nid + 1,
          game_state |-> [gs EXCEPT !.activity_points_used = @ + cost],
          ret |-> True, bell |-> FALSE, modal |-> NoModal]

\* TaskListAP.add_task: the new task list, id counter and game state, the
\* value returned, and the bell and the modal it raises
add_task(gs, ts, nid, description, task_type, cost) ==
    IF ~can_add_task(gs, cost)
    THEN [tasks |-> ts, next_task_id |-> nid, game_state |-> gs,
          ret |-> False, bell |-> TRUE,
          modal |-> <<"ActivityPointsModal", gs.activity_points_used,
                      gs.max_activity_points, cost>>]
    ELSE [tasks |-> Append(ts, Task(TaskIdStr(nid), description, cost,
                                    task_type, gs.date_str)),
          next_task_id |-> NextTaskIdAfterAdd(nid),
          game_state |-> add_activity_points(gs, cost),
          ret |-> True, bell |-> FALSE, modal |-> NoModal]

\* the index of the first task with this id, 0 when there is none
FindTask(ts, task_id) ==
    IF \E i \in 1..Len(ts) : ts[i].id = task_id
    THEN CHOOSE i \in 1..Len(ts) :
            /\ ts[i].id = task_id
            /\ \A j \in 1..(i - 1) : ts[j].id # task_id
    ELSE 0

\* as ListRemove, dropping the last element (list.pop())
ListRemove_pop(ts, x) == SubSeq(ts, 1, Len(ts) - 1)

\* list.remove(x): drops the first element equal to x
ListRemove(ts, x) ==
    LET i == CHOOSE k \in 1..Len(ts) :
                /\ ts[k] = x
                /\ \A j \in 1..(k - 1) : ts[j] # x
    IN RemoveAt(ts, i)

\* as RefundActivityPoints, with the refund forgotten
RefundActivityPoints_none(gs, cost) == gs

\* game_state.activity_points_used = max(0, used - cost)
RefundActivityPoints(gs, cost) ==
    [gs EXCEPT !.activity_points_used = Max(0, gs.activity_points_used - cost)]

\* as remove_task, returning True also when no task has the id
remove_task_silent(gs, ts, task_id) ==
    IF \E i \in 1..Len(ts) : ts[i].id = task_id
    THEN LET i == CHOOSE k \in 1..Len(ts) : ts[k].id = task_id
         IN [tasks |-> RemoveAt(ts, i),
             game_state |-> [gs EXCEPT !.activity_points_used =
                                Max(0, gs.activity_points_used - ts[i].cost)],
             ret |-> True]
    ELSE [tasks |-> ts, game_state |-> gs, ret |-> True]

\* TaskListAP.remove_task
remove_task(gs, ts, task_id) ==
    LET i == FindTask(ts, task_id)
    IN IF i = 0
       THEN [tasks |-> ts, game_state |-> gs, ret |-> False]
       ELSE [tasks |-> ListRemove(ts, ts[i]),
             game_state |-> RefundActivityPoints(gs, ts[i].cost),
             ret |-> True]

(***************************************************************************)
(* Journal.                                                                *)
(***************************************************************************)
\* as add_entry, with the tasks merged into the entry the date already has
add_entry_merged(ents, date_str, descs) ==
    IF \E k \in 1..Len(ents) : ents[k].date_str = date_str
    THEN LET k == CHOOSE i \in 1..Len(ents) : ents[i].date_str = date_str
         IN [ents EXCEPT ![k].tasks = @ \o descs]
    ELSE Append(ents, [date_str |-> date_str, tasks |-> descs])

\* Journal.add_entry
add_entry(ents, date_str, descs) ==
    Append(ents, [date_str |-> date_str, tasks |-> descs])

\* the keys of tasks_by_date, in insertion order
RECURSIVE DateKeys(_)
DateKeys(twd) ==
    IF twd = <<>> THEN <<>>
    ELSE LET rest == DateKeys(SubSeq(twd, 1, Len(twd) - 1))
             d    == twd[Len(twd)][1]
         IN IF \E k \in 1..Len(rest) : rest[k] = d THEN rest ELSE Append(rest, d)

\* tasks_by_date[date_str]
RECURSIVE DescsOf(_, _)
DescsOf(twd, d) ==
    IF twd = <<>> THEN <<>>
    ELSE IF twd[1][1] = d THEN <<twd[1][2]>> \o DescsOf(Tail(twd), d)
    ELSE DescsOf(Tail(twd), d)

\* as add_journal_entries, with one entry per task instead of one per date
add_journal_entries_per_task(ents, twd) ==
    ents \o [i \in 1..Len(twd) |-> [date_str |-> twd[i][1], tasks |-> <<twd[i][2]>>]]

\* GameScreen.add_journal_entries
add_journal_entries(ents, twd) ==
    LET keys == DateKeys(twd)
        RECURSIVE AddAll(_, _)
        AddAll(es, k) ==
            IF k > Len(keys) THEN es
            ELSE AddAll(add_entry(es, keys[k], DescsOf(twd, keys[k])), k + 1)
    IN AddAll(ents, 1)

\* tasks_with_dates of handle_step_simulation
TasksWithDates(gs, ts) ==
    [i \in 1..Len(ts) |-> <<gs.date_str, ts[i].description>>]

(***************************************************************************)
(* GameScreen: the command handlers.                                       *)
(***************************************************************************)
\* what a command showed: the command, the value add_task / remove_task
\* returned (None when it was not called), whether the bell rang, the modal
\* screen pushed with its arguments, and whether the command input was cleared
Shown(cmd, ret, bell, modal, cleared) ==
    [cmd |-> cmd, ret |-> ret, bell |-> bell, modal |-> modal,
     input_cleared |-> cleared]

\* as ParseTaskAdd, with an amount that is no number taken as 0
ParseTaskAdd_amount_zero(parts) ==
    LET bad == [ok |-> FALSE, description |-> <<>>, cost |-> 0, task_type |-> None]
    IN IF Len(parts) = 0 THEN bad
       ELSE LET task_type == lower(parts[1])
            IN IF task_type = "investigate" /\ Len(parts) >= 2
               THEN [ok |-> TRUE, description |-> <<"Investigate", upper(parts[2])>>,
                     cost |-> 1, task_type |-> "INVESTIGATE"]
               ELSE IF task_type = "irrigate" /\ Len(parts) >= 3
               THEN [ok |-> TRUE,
                     description |-> <<"Irrigate", upper(parts[2]),
                                       IF IsIntText(parts[3]) THEN int(parts[3]) ELSE 0>>,
                     cost |-> 2, task_type |-> "IRRIGATE"]
               ELSE IF task_type = "pesticide" /\ Len(parts) >= 2
               THEN [ok |-> TRUE, description |-> <<"Pesticide", upper(parts[2])>>,
                     cost |-> 1, task_type |-> "PESTICIDE"]
               ELSE bad

\* as ParseTaskAdd, with every kind of task at the cost of 1
ParseTaskAdd_flat_cost(parts) ==
    LET bad == [ok |-> FALSE, description |-> <<>>, cost |-> 0, task_type |-> None]
    IN IF Len(parts) = 0 THEN bad
       ELSE LET task_type == lower(parts[1])
            IN IF task_type = "investigate" /\ Len(parts) >= 2
               THEN [ok |-> TRUE, description |-> <<"Investigate", upper(parts[2])>>,
                     cost |-> 1, task_type |-> "INVESTIGATE"]
               ELSE IF task_type = "irrigate" /\ Len(parts) >= 3
               THEN IF IsIntText(parts[3])
                    THEN [ok |-> TRUE,
                          description |-> <<"Irrigate", upper(parts[2]), int(parts[3])>>,
                          cost |-> 1, task_type |-> "IRRIGATE"]
                    ELSE bad
               ELSE IF task_type = "pesticide" /\ Len(parts) >= 2
               THEN [ok |-> TRUE, description |-> <<"Pesticide", upper(parts[2])>>,
                     cost |-> 1, task_type |-> "PESTICIDE"]
               ELSE bad

\* handle_task_add, lines 230-260: the description, cost and type of the
\* command, or ok = FALSE for a command that is rejected with the bell
ParseTaskAdd(parts) ==
    LET bad == [ok |-> FALSE, description |-> <<>>, cost |-> 0, task_type |-> None]
    IN IF Len(parts) = 0 THEN bad
       ELSE LET task_type == lower(parts[1])
            IN IF task_type = "investigate" /\ Len(parts) >= 2
               THEN [ok |-> TRUE, description |-> <<"Investigate", upper(parts[2])>>,
                     cost |-> 1, task_type |-> "INVESTIGATE"]
               ELSE IF task_type = "irrigate" /\ Len(parts) >= 3
               THEN IF IsIntText(parts[3])
                    THEN [ok |-> TRUE,
                          description |-> <<"Irrigate", upper(parts[2]), int(parts[3])>>,
                          cost |-> 2, task_type |-> "IRRIGATE"]
                    ELSE bad
               ELSE IF task_type = "pesticide" /\ Len(parts) >= 2
               THEN [ok |-> TRUE, description |-> <<"Pesticide", upper(parts[2])>>,
                     cost |-> 1, task_type |-> "PESTICIDE"]
               ELSE bad

\* GameScreen.handle_task_add
handle_task_add(parts) ==
    LET p == ParseTaskAdd(parts)
    IN IF ~p.ok
       THEN /\ ui' = Shown("add", None, TRUE, NoModal, FALSE)
            /\ UNCHANGED <<grid_size, weather, sectors, dry_sectors, previous_session, current_session,
                           game_state, tasks, next_task_id, entries>>
       ELSE LET r == add_task(game_state, tasks, next_task_id,
                              p.description, p.task_type, p.cost)
            IN /\ tasks' = r.tasks
               /\ next_task_id' = r.next_task_id
               /\ game_state' = r.game_state
               /\ ui' = Shown("add", r.ret, r.bell, r.modal, r.ret = True)
               /\ UNCHANGED <<grid_size, weather, sectors, dry_sectors, previous_session,
                              current_session, entries>>

\* the text of the task id typed after "/task remove ", upper-cased
RemoveTaskId(arg) == <<upper(arg[1]), arg[2]>>

\* GameScreen.handle_task_remove
handle_task_remove(arg) ==
    IF Len(arg) = 0
    THEN /\ ui' = Shown("remove", None, TRUE, NoModal, FALSE)
         /\ UNCHANGED <<grid_size, weather, sectors, dry_sectors, previous_session, current_session,
                        game_state, tasks, next_task_id, entries>>
    ELSE LET r == remove_task(game_state, tasks, RemoveTaskId(arg))
         IN /\ tasks' = r.tasks
            /\ game_state' = r.game_state
            /\ ui' = Shown("remove", r.ret, r.ret = False, NoModal, r.ret = True)
            /\ UNCHANGED <<grid_size, weather, sectors, dry_sectors, previous_session, current_session,
                           next_task_id, entries>>

\* AquaCropManager.step_simulation: the sectors after the days
step_simulation(secs, dry, days) == StepDays(secs, dry, days)

\* as AfterStepSimulation, with the task list not cleared
AfterStepSimulation_keeps_queue(secs, gs, tasks_with_dates) ==
    /\ sectors' = secs
    /\ current_session' = get_session_date(secs)
    /\ game_state' = gs
    /\ entries' = IF tasks_with_dates # <<>>
                  THEN add_journal_entries(entries, tasks_with_dates)
                  ELSE entries
    /\ tasks' = tasks
    /\ ui' = Shown("step", None, FALSE,
                   IF season_changed(gs)
                   THEN <<"SeasonStatsModal", gs.current_season>> ELSE NoModal,
                   TRUE)
    /\ UNCHANGED <<grid_size, weather, dry_sectors, previous_session, next_task_id>>

\* GameScreen.handle_step_simulation, lines 299-333: after step_simulation
\* left the sectors secs, with the tasks_with_dates read before it
AfterStepSimulation(secs, gs, tasks_with_dates) ==
    /\ sectors' = secs
    /\ current_session' = get_session_date(secs)
    /\ game_state' = gs
    /\ entries' = IF tasks_with_dates # <<>>
                  THEN add_journal_entries(entries, tasks_with_dates)
                  ELSE entries
    /\ tasks' = <<>>
    /\ ui' = Shown("step", None, FALSE,
                   IF season_changed(gs)
                   THEN <<"SeasonStatsModal", gs.current_season>> ELSE NoModal,
                   TRUE)
    /\ UNCHANGED <<grid_size, weather, dry_sectors, previous_session, next_task_id>>

\* as UpdateAndReset, without the update from the manager
UpdateAndReset_no_update(gs, secs) == reset_activity_points(gs)

\* game_state.update_from_aquacrop(); game_state.reset_activity_points()
UpdateAndReset(gs, secs) == reset_activity_points(update_from_aquacrop(gs, secs))

\* handle_step_simulation from the call of step_simulation on
StepAndCommit(secs, tasks_with_dates) ==
    AfterStepSimulation(secs, UpdateAndReset(game_state, secs), tasks_with_dates)

\* as handle_step_simulation, with tasks_with_dates read after the update of
\* the game state
StepThenDates(secs) ==
    AfterStepSimulation(secs, UpdateAndReset(game_state, secs),
                        TasksWithDates(UpdateAndReset(game_state, secs), tasks))
handle_step_simulation_dates_after ==
    StepThenDates(step_simulation(sectors, dry_sectors, session_days))

\* as handle_step_simulation, returning at once when the simulation is over
handle_step_simulation_over ==
    IF \A id \in DOMAIN sectors : sectors[id].model.model_is_finished
    THEN /\ ui' = Shown("step", None, FALSE, NoModal, TRUE)
         /\ UNCHANGED <<grid_size, weather, sectors, dry_sectors, previous_session,
                        current_session, game_state, tasks, next_task_id, entries>>
    ELSE StepAndCommit(step_simulation(sectors, dry_sectors, session_days),
                       TasksWithDates(game_state, tasks))

\* GameScreen.handle_step_simulation
handle_step_simulation ==
    StepAndCommit(step_simulation(sectors, dry_sectors, session_days),
                  TasksWithDates(game_state, tasks))

(***************************************************************************)
(* The state machine.                                                      *)
(***************************************************************************)
\* GameScreen.compose and compose_tabs: AquaCropManager(), GameState(manager),
\* TaskListAP(), Journal()
StartWith(gsz, last) ==
    \E sample \in DrySamples(gsz) :
        /\ grid_size = gsz
        /\ weather = prepare_weather(last)
        /\ sectors = InitialSectors(gsz, sample)
        /\ dry_sectors = InitialDrySectors(gsz, sample)
        /\ previous_session = NoSession
        /\ current_session = get_session_date(InitialSectors(gsz, sample))
        /\ game_state = InitialGameState(InitialSectors(gsz, sample))
        /\ tasks = <<>>
        /\ next_task_id = 1
        /\ entries = <<>>
        /\ ui = Shown("start", None, FALSE, NoModal, FALSE)

\* the same, with a weather file that ends a session after sim_end_time
Start(gsz) == StartWith(gsz, SimEndDay + session_days)

Init == Start(GameGridSize)

\* no "/task add" is typed once MaxTaskId ids were handed out
TaskAdd == \E parts \in AddCommands :
              /\ next_task_id <= MaxTaskId
              /\ handle_task_add(parts)

TaskRemove == \E arg \in RemoveCommands : handle_task_remove(arg)

Step == handle_step_simulation

Next == TaskAdd \/ TaskRemove \/ Step

Spec == Init /\ [][Next]_vars

(***************************************************************************)
(* The manager on its own: built with any of the grid sizes, stepped by    *)
(* /step with no task pending, and read through its query methods.         *)
(***************************************************************************)
\* the AquaCropManager object
Manager ==
    [grid_size |-> grid_size, weather |-> weather,
     sectors |-> sectors, dry_sectors |-> dry_sectors,
     previous_session |-> previous_session, current_session |-> current_session]

\* a method that assigns nothing and returns the value
Returned(value) == [self |-> Manager, raised |-> None, ret |-> value]

\* a call of a manager method: the manager it leaves, and what it gave back
ManagerCall(cmd, r) ==
    /\ grid_size' = r.self.grid_size
    /\ weather' = r.self.weather
    /\ sectors' = r.self.sectors
    /\ dry_sectors' = r.self.dry_sectors
    /\ previous_session' = r.self.previous_session
    /\ current_session' = r.self.current_session
    /\ ui' = Shown(cmd, IF r.raised = None THEN r.ret ELSE <<"raised", r.raised>>,
                   FALSE, NoModal, FALSE)
    /\ UNCHANGED <<game_state, tasks, next_task_id, entries>>

GetCanopyCoverValues ==
    ManagerCall("get_canopy_cover_values", Returned(get_canopy_cover_values(sectors)))

GetCurrentCanopyCover ==
    ManagerCall("get_current_canopy_cover", Returned(get_current_canopy_cover(sectors)))

GetCurrentBiomass ==
    ManagerCall("get_current_biomass", Returned(get_current_biomass(sectors)))

GetCurrentHydration ==
    ManagerCall("get_current_hydration", Returned(get_current_hydration(sectors)))

GetCurrentSeason ==
    ManagerCall("get_current_season", Returned(get_current_season(sectors)))

GetCurrentDate ==
    ManagerCall("get_current_date", Returned(get_current_date(sectors)))

WeatherData == ManagerCall("weather_data", weather_data(Manager))

ManagerInit == \E gsz \in GridSizes : Start(gsz)

ManagerNext ==
    \/ Step
    \/ GetCanopyCoverValues
    \/ GetCurrentCanopyCover
    \/ GetCurrentBiomass
    \/ GetCurrentHydration
    \/ GetCurrentSeason
    \/ GetCurrentDate
    \/ WeatherData

ManagerSpec == ManagerInit /\ [][ManagerNext]_vars

(***************************************************************************)
(* Properties.                                                             *)
(***************************************************************************)
used == game_state.activity_points_used

AllFinished == \A id \in DOMAIN sectors : sectors[id].model.model_is_finished

Descriptions(ts) == [i \in 1..Len(ts) |-> ts[i].description]

HasTask(ts, task_id) == \E i \in 1..Len(ts) : ts[i].id = task_id

\* the cost of the task the last "/task add" asked for: that of the task
\* appended, or the one the ActivityPointsModal reports
AttemptedCost ==
    IF ui.ret = True THEN tasks[Len(tasks)].cost ELSE ui.modal[4]

\* the last command was a "/task add" that reached add_task
AddTaskCalled == ui.cmd = "add" /\ ui.ret \in {True, False}

\* everything but the screen output is as it was
QueueUntouched ==
    UNCHANGED <<tasks, game_state, next_task_id, entries, grid_size, weather,
                sectors, dry_sectors,
                previous_session, current_session>>

\* C1: budget conservation -- in every state reached by any sequence of task
\* add, task remove and /step, activity_points_used is the sum of the costs
\* of the pending tasks.
C1_BudgetConservation == used = SumCost(tasks)

\* a remove left one cost-2 task pending, and 2 activity points used
C1_Witness ==
    /\ ui.cmd = "remove" /\ ui.ret = True
    /\ Len(tasks) = 1 /\ tasks[1].cost = 2 /\ used = 2

\* C2: in every reachable state 0 <= activity_points_used <=
\* max_activity_points, and max_activity_points is 4.
C2_WithinBudget ==
    /\ 0 <= used
    /\ used <= game_state.max_activity_points
    /\ game_state.max_activity_points = 4

\* the budget is used up and a further add was refused
C2_Witness ==
    /\ used = 4 /\ ui.cmd = "add" /\ ui.ret = False

\* C3: id monotonicity -- the id counter starts at 1; a successful add gives
\* the new task the id T<counter> and moves the counter up by exactly one; no
\* other command (remove, /step, refused add) changes the counter; so the ids
\* handed out are T1, T2, T3, ... and none is handed out twice.
C3_IdMonotonicity ==
    /\ next_task_id = 1
    /\ [][ IF ui'.cmd = "add" /\ ui'.ret = True
           THEN /\ tasks'[Len(tasks')].id = TaskIdStr(next_task_id)
                /\ next_task_id' = next_task_id + 1
                /\ \A i \in 1..Len(tasks) : tasks[i].id[2] < next_task_id
           ELSE next_task_id' = next_task_id ]_vars

\* T3 was handed out after T1 or T2 was removed and the other was committed by
\* a /step
C3_Witness ==
    /\ ui.cmd = "add" /\ ui.ret = True
    /\ Len(tasks) = 1 /\ tasks[1].id = TaskIdStr(3)
    /\ Len(entries) = 1 /\ Len(entries[1].tasks) = 1

\* C4: add succeeds exactly when activity_points_used + cost <=
\* max_activity_points; on success exactly one task is appended at the end of
\* the queue, with the next id, and activity_points_used grows by the cost.
C4_AddAdmission ==
    [][ AddTaskCalled' =>
          /\ (ui'.ret = True) <=> (used + AttemptedCost' <= game_state.max_activity_points)
          /\ ui'.ret = True =>
               /\ Len(tasks') = Len(tasks) + 1
               /\ SubSeq(tasks', 1, Len(tasks)) = tasks
               /\ tasks'[Len(tasks')].id = TaskIdStr(next_task_id)
               /\ used' = used + tasks'[Len(tasks')].cost ]_vars

\* an add was admitted that used the budget up exactly
C4_Witness ==
    /\ ui.cmd = "add" /\ ui.ret = True /\ used = 4
    /\ tasks[Len(tasks)].cost = 2

\* C5: an add whose cost would take activity_points_used over
\* max_activity_points returns False (with the bell and the modal) and leaves
\* the queue, activity_points_used, the id counter and the journal as they were.
C5_RejectedAddUntouched ==
    [][ (AddTaskCalled' /\ used + AttemptedCost' > game_state.max_activity_points) =>
          /\ ui'.ret = False /\ ui'.bell
          /\ QueueUntouched ]_vars

\* two cost-2 tasks pending, a cost-1 add was refused, 4 points still used
C5_Witness ==
    /\ ui.cmd = "add" /\ ui.ret = False /\ ui.modal[4] = 1
    /\ Len(tasks) = 2 /\ tasks[1].cost = 2 /\ tasks[2].cost = 2
    /\ used = 4

\* C6: "/task remove" with an id that no pending task has returns False, rings
\* the bell, and leaves the queue, activity_points_used, the id counter and the
\* journal unchanged.
C6_RemoveMissing ==
    [][ \A arg \in RemoveCommands :
          (/\ ui'.cmd = "remove"
           /\ Len(arg) > 0
           /\ ~HasTask(tasks, RemoveTaskId(arg))
           /\ handle_task_remove(arg)) =>
             /\ ui'.ret = False /\ ui'.bell /\ ~ui'.input_cleared
             /\ QueueUntouched ]_vars

\* a remove failed while a task was pending and another had been committed
C6_Witness ==
    /\ ui.cmd = "remove" /\ ui.ret = False /\ ui.bell
    /\ Len(tasks) >= 1 /\ Len(entries) >= 1

\* C7: refund -- removing a pending task removes exactly that task, the others
\* keep their order and ids, and activity_points_used drops by exactly its cost.
C7_RefundCorrect ==
    [][ \A arg \in RemoveCommands :
          (/\ ui'.cmd = "remove"
           /\ Len(arg) > 0
           /\ HasTask(tasks, RemoveTaskId(arg))
           /\ handle_task_remove(arg)) =>
             \E i \in 1..Len(tasks) :
                /\ tasks[i].id = RemoveTaskId(arg)
                /\ Len(tasks') = Len(tasks) - 1
                /\ \A j \in 1..Len(tasks') :
                      tasks'[j] = IF j < i THEN tasks[j] ELSE tasks[j + 1]
                /\ used' = used - tasks[i].cost
                /\ ui'.ret = True ]_vars

\* the middle one of three tasks was removed
C7_Witness ==
    /\ ui.cmd = "remove" /\ ui.ret = True
    /\ Len(tasks) = 2
    /\ tasks[1].id = TaskIdStr(1) /\ tasks[2].id = TaskIdStr(3)
    /\ used = tasks[1].cost + tasks[2].cost

C9_EntryDateBeforeAdvance ==
    [][ (ui'.cmd = "step" /\ Len(tasks) >= 1) =>
          /\ Len(entries') >= 1
          /\ entries'[Len(entries')].date_str = game_state.date_str
          /\ ~AllFinished =>
               /\ game_state'.date_str # game_state.date_str
               /\ entries'[Len(entries')].date_str # game_state'.date_str ]_vars

\* the second /step committed a task under the date of the first
C9_Witness ==
    /\ ui.cmd = "step"
    /\ Len(entries) >= 1
    /\ entries[Len(entries)].date_str = strftime(session_days)
    /\ game_state.date_str # strftime(session_days)

\* C10: after every /step, finished or not, activity_points_used is 0 and the
\* queue is empty, so a task of the full budget would be admitted.
C10_StepResets ==
    ui.cmd = "step" =>
        /\ used = 0
        /\ tasks = <<>>
        /\ can_add_task(game_state, game_state.max_activity_points)

\* a /step in the finished simulation committed two pending tasks
C10_Witness ==
    /\ ui.cmd = "step" /\ AllFinished
    /\ Len(entries) >= 2
    /\ entries[Len(entries)].date_str = entries[Len(entries) - 1].date_str
    /\ Len(entries[Len(entries)].tasks) = 2
    /\ used = 0

\* C11: idempotent termination -- once every sector's model is finished, a
\* further step_simulation leaves every sector's canopy cover history as it
\* was, in length and in values, and performs a timestep on no sector.
C11_IdempotentTermination ==
    [][ (AllFinished /\ ui'.cmd = "step") =>
          /\ DOMAIN sectors' = DOMAIN sectors
          /\ \A id \in DOMAIN sectors :
                /\ sectors'[id].canopy_cover_history = sectors[id].canopy_cover_history
                /\ sectors'[id].model.time_step_counter =
                      sectors[id].model.time_step_counter
                /\ sectors'[id].model = sectors[id].model ]_vars

\* a /step was taken on the finished 4 x 4 farm: the season did not change in
\* it, and every history is as long as the timesteps performed
C11_Witness ==
    /\ ui.cmd = "step" /\ AllFinished /\ ui.modal = NoModal
    /\ grid_size = <<4, 4>>
    /\ \A id \in DOMAIN sectors :
          /\ Len(sectors[id].canopy_cover_history) > session_days
          /\ Len(sectors[id].canopy_cover_history) =
                sectors[id].model.time_step_counter

\* a sector of the bad soil after n days, each day being: the water content
\* th replaced by th * (1 - 0.03), then one timestep of the engine on the
\* reduced model, then the day's canopy cover appended to the history
RECURSIVE PenalisedDays(_, _)
PenalisedDays(sector, n) ==
    IF n = 0 \/ sector.model.model_is_finished THEN sector
    ELSE LET reduced == [sector.model EXCEPT !.th = (@ * (100 - 3)) \div 100]
         IN PenalisedDays(
                [sector EXCEPT
                    !.model = perform_timestep(reduced),
                    !.canopy_cover_history =
                        Append(@, perform_timestep(reduced).canopy_cover)],
                n - 1)

\* C12: penalty ordering -- on every advanced day of an unfinished sector of
\* dry_sectors the water content is first replaced by th * (1 - 0.03) and
\* only then the engine's timestep is performed, on the reduced value; the
\* reduction is applied exactly once per advanced day.  So after any number
\* of /steps such a sector is what that many days of reduce-then-timestep
\* make of the sector initialize_farm built.
C12_PenaltyOrdering ==
    \A id \in DOMAIN sectors :
        InDrySectors(id, dry_sectors) =>
            sectors[id] =
                PenalisedDays([model |-> AquaCropModel("Sand"), sector_id |-> id,
                               canopy_cover_history |-> <<>>],
                              sectors[id].model.time_step_counter)

\* one /step: a sector of the bad soil has had its 30 timesteps and holds less
\* water and less canopy than a sector of the good soil
C12_Witness ==
    /\ ui.cmd = "step"
    /\ \E id \in DOMAIN sectors : \E other \in DOMAIN sectors :
          /\ InDrySectors(id, dry_sectors) /\ ~InDrySectors(other, dry_sectors)
          /\ sectors[id].model.time_step_counter = session_days
          /\ sectors[id].model.th < sectors[other].model.th
          /\ sectors[id].model.canopy_cover < sectors[other].model.canopy_cover

\* C13: grid identity -- a rows x cols farm has exactly rows * cols sectors,
\* the id of each being the letter of its row followed by the 1-based number
\* of its column, all distinct; the 4 x 4 farm has exactly A1..A4, B1..B4,
\* C1..C4, D1..D4; and no /step or query changes the set of ids.
C13_GridIdentity ==
    LET rows == grid_size[1]
        cols == grid_size[2]
        letters == <<"A", "B", "C", "D">>
    IN /\ Cardinality(DOMAIN sectors) = rows * cols
       /\ DOMAIN sectors = {<<letters[r], c>> : r \in 1..rows, c \in 1..cols}
       /\ \A id \in DOMAIN sectors : sectors[id].sector_id = id
       /\ grid_size = <<4, 4>> =>
             DOMAIN sectors =
                {<<"A", 1>>, <<"A", 2>>, <<"A", 3>>, <<"A", 4>>,
                 <<"B", 1>>, <<"B", 2>>, <<"B", 3>>, <<"B", 4>>,
                 <<"C", 1>>, <<"C", 2>>, <<"C", 3>>, <<"C", 4>>,
                 <<"D", 1>>, <<"D", 2>>, <<"D", 3>>, <<"D", 4>>}

\* the 2 x 3 farm, with its sectors A1..A3 and B1..B3, stepped to the end
C13_Witness ==
    /\ grid_size = <<2, 3>> /\ ui.cmd = "step" /\ AllFinished
    /\ <<"B", 3>> \in DOMAIN sectors
    /\ <<"C", 1>> \notin DOMAIN sectors
    /\ Cardinality(DOMAIN sectors) = 6

\* C14: weather window empty guard -- while previous_session is None, as it is
\* before any session has advanced, weather_data gives None for the previous
\* session, not a SessionWeather of zeros, next to the forecast.
C14_NoPreviousWeather ==
    (ui.cmd = "weather_data" /\ previous_session = NoSession) =>
        /\ ui.ret[1] = NoSessionWeather
        /\ ui.ret[1] # <<SessionWeather(current_session, 0, 0, 0)>>
        /\ ui.ret[2].session_date = current_session

\* the weather was asked for on the farm just built, before any /step
C14_Witness ==
    /\ ui.cmd = "weather_data" /\ previous_session = NoSession
    /\ current_session = 0
    /\ \A id \in DOMAIN sectors : sectors[id].model.time_step_counter = 0
    /\ ui.ret[1] = NoSessionWeather
    /\ ui.ret[2].min_temp # <<"nan">>

\* C15: terminal behaviour -- once every sector is finished, a /step leaves
\* the session date and the season as they were, and still resets
\* activity_points_used to 0, writes the pending tasks to the journal and
\* clears the queue.
C15_TerminalStep ==
    [][ (AllFinished /\ ui'.cmd = "step") =>
          /\ current_session' = current_session
          /\ game_state'.date_str = game_state.date_str
          /\ game_state'.current_season = game_state.current_season
          /\ game_state'.season_str = game_state.season_str
          /\ used' = 0
          /\ tasks' = <<>>
          /\ entries' = IF tasks = <<>> THEN entries
                        ELSE Append(entries, [date_str |-> game_state.date_str,
                                              tasks |-> Descriptions(tasks)]) ]_vars

\* a /step on the finished farm wrote the one pending task under the last date
C15_Witness ==
    /\ ui.cmd = "step" /\ AllFinished /\ ui.modal = NoModal
    /\ Len(entries) >= 1
    /\ entries[Len(entries)].date_str = game_state.date_str
    /\ Len(entries[Len(entries)].tasks) = 1
    /\ used = 0 /\ tasks = <<>>

\* the cost the table gives a kind of task
CostOfKind(kind) ==
    CASE kind = "INVESTIGATE" -> 1
      [] kind = "IRRIGATE"    -> 2
      [] kind = "PESTICIDE"   -> 1

\* C16: cost table -- every pending task has the cost of its kind: Investigate
\* 1, Irrigate 2, Pesticide 1; so the cost of every pending task is 1 or 2, in
\* every reachable state.
C16_CostTable ==
    \A i \in 1..Len(tasks) :
        /\ tasks[i].task_type \in {"INVESTIGATE", "IRRIGATE", "PESTICIDE"}
        /\ tasks[i].cost = CostOfKind(tasks[i].task_type)
        /\ tasks[i].cost \in {1, 2}
        /\ tasks[i].cost_str = <<CostOfKind(tasks[i].task_type), "AP">>
        /\ tasks[i].description[1] =
              (CASE tasks[i].task_type = "INVESTIGATE" -> "Investigate"
                 [] tasks[i].task_type = "IRRIGATE"    -> "Irrigate"
                 [] tasks[i].task_type = "PESTICIDE"   -> "Pesticide")

\* one task of each kind is pending, in the second session
C16_Witness ==
    /\ Len(tasks) = 3
    /\ {tasks[i].task_type : i \in 1..3} = {"INVESTIGATE", "IRRIGATE", "PESTICIDE"}
    /\ used = 4
    /\ current_session = session_days

\* a "/task add" command that is malformed: no words, a kind that is none of
\* the three, a kind without its sector, an irrigation without its amount or
\* with an amount that is no integer
MalformedAdd(parts) ==
    \/ Len(parts) = 0
    \/ lower(parts[1]) \notin {"investigate", "irrigate", "pesticide"}
    \/ Len(parts) < 2
    \/ /\ lower(parts[1]) = "irrigate"
       /\ (Len(parts) < 3 \/ parts[3] \notin {"10", "010", "25"})

\* C17: a malformed command -- an unknown kind of task, missing parameters, an
\* irrigation amount that is no integer, no id after "/task remove" -- leaves
\* the queue, activity_points_used, the id counter, the journal and the
\* sectors unchanged, and the bell tells the user of the failure.
C17_MalformedCommand ==
    [][ /\ \A parts \in AddCommands :
              (MalformedAdd(parts) /\ handle_task_add(parts)) =>
                  /\ QueueUntouched
                  /\ ui'.bell /\ ui'.ret = None /\ ~ui'.input_cleared
        /\ \A arg \in RemoveCommands :
              (Len(arg) = 0 /\ handle_task_remove(arg)) =>
                  /\ QueueUntouched
                  /\ ui'.bell /\ ui'.ret = None /\ ~ui'.input_cleared ]_vars

\* a malformed "/task add" rang the bell with the task T2 pending and T1 in
\* the journal
C17_Witness ==
    /\ ui.cmd = "add" /\ ui.ret = None /\ ui.bell
    /\ Len(tasks) = 1 /\ used = tasks[1].cost
    /\ next_task_id = 3
    /\ Len(entries) = 1

\* C18: the journal is append-only -- over any add, remove and /step the
\* journal before is a prefix of the journal after: no entry is removed,
\* moved, merged or changed in its date or descriptions.
C18_JournalAppendOnly ==
    [][ /\ Len(entries') >= Len(entries)
        /\ SubSeq(entries', 1, Len(entries)) = entries ]_vars

\* two entries of the same date are in the journal, and a task added after
\* them was removed again
C18_Witness ==
    /\ Len(entries) = 2
    /\ entries[1].date_str = entries[2].date_str
    /\ entries[1].tasks # entries[2].tasks
    /\ ui.cmd = "remove" /\ ui.ret = True
    /\ tasks = <<>>

\* C19: each of the three aggregate queries returns a mapping with exactly one
\* entry per sector id, the value for a sector being that sector's current
\* value of the metric asked for: its canopy cover, its biomass, and for the
\* stored-water query (get_current_hydration) its soil water content th.
C19_AggregateMetric ==
    /\ ui.cmd = "get_current_canopy_cover" =>
          /\ DOMAIN ui.ret = DOMAIN sectors
          /\ \A id \in DOMAIN sectors : ui.ret[id] = sectors[id].model.canopy_cover
    /\ ui.cmd = "get_current_biomass" =>
          /\ DOMAIN ui.ret = DOMAIN sectors
          /\ \A id \in DOMAIN sectors : ui.ret[id] = sectors[id].model.biomass
    /\ ui.cmd = "get_current_hydration" =>
          /\ DOMAIN ui.ret = DOMAIN sectors
          /\ \A id \in DOMAIN sectors : ui.ret[id] = sectors[id].model.th

\* the read operations of the manager
ReadCommands ==
    {"get_canopy_cover_values", "get_current_canopy_cover", "get_current_biomass",
     "get_current_hydration", "get_current_season", "get_current_date",
     "weather_data"}

\* C20: the read operations -- the aggregate of any metric, the current date,
\* the current season, the weather query -- are pure: a call of any of them
\* leaves the sectors with their models and histories, the session dates, the
\* queue, the budget and the journal as they were.
C20_ReadsPure ==
    [][ ui'.cmd \in ReadCommands =>
          /\ sectors' = sectors
          /\ UNCHANGED <<grid_size, weather, dry_sectors, previous_session, current_session>>
          /\ UNCHANGED <<game_state, tasks, next_task_id, entries>> ]_vars

\* the histories were read after the first /step, and are still 30 days long
\* in the sectors
C20_Witness ==
    /\ ui.cmd = "get_canopy_cover_values"
    /\ current_session = session_days
    /\ DOMAIN ui.ret = DOMAIN sectors
    /\ \A id \in DOMAIN sectors :
          /\ Len(ui.ret[id]) = session_days
          /\ sectors[id].canopy_cover_history = ui.ret[id]

\* C21: after each session advance (/step), previous_session is the value
\* current_session had immediately before the advance, and current_session is
\* the grid's clock date; so previous_session is absent only before the first
\* advance.
C21_PreviousSession ==
    [][ ui'.cmd = "step" =>
          /\ previous_session' = <<current_session>>
          /\ current_session' = get_session_date(sectors') ]_vars

\* C22: season_changed() is false before the first /step, and after a /step
\* it is true exactly when the season the grid reports after the step differs
\* from the season it reported before the step (so it is false after a /step
\* in the finished simulation); no other command changes its value.
C22_SeasonChanged ==
    /\ ~season_changed(game_state)
    /\ [][ IF ui'.cmd = "step"
           THEN season_changed(game_state') <=>
                    (get_current_season(sectors') # get_current_season(sectors))
           ELSE season_changed(game_state') <=> season_changed(game_state) ]_vars

\* the /step that harvested: the grid went from season 1 to season 2, and the
\* season statistics were shown
C22_Witness ==
    /\ ui.cmd = "step"
    /\ get_current_season(sectors) = 2
    /\ game_state.previous_season = 1
    /\ season_changed(game_state)
    /\ ui.modal = <<"SeasonStatsModal", 2>>

\* C23: in every reachable state no two journal entries carry the same
\* session date -- the journal holds one entry per distinct date that had a
\* committed task, also when /step is typed with pending tasks several times
\* after the clock has stopped at the end of the simulation.
C23_OneEntryPerDate ==
    \A i, j \in 1..Len(entries) :
        i # j => entries[i].date_str # entries[j].date_str

\* the records of the half-open window [from, to)
HalfOpenWindow(from, to) == {d \in DOMAIN weather : from <= d /\ d < to}

\* the sum of a column over the days lo..hi of the weather
RECURSIVE SumOfDays(_, _, _)
SumOfDays(lo, hi, column) ==
    IF lo > hi THEN 0 ELSE weather[lo][column] + SumOfDays(lo + 1, hi, column)

WeatherInit == \E last \in WeatherEnds : StartWith(GameGridSize, last)

WeatherNext == Step \/ WeatherData

WeatherSpec == WeatherInit /\ [][WeatherNext]_vars

\* C25: whenever the weather holds no record in the requested window -- as
\* for a forecast asked for on or after the day of its last record, after the
\* simulation finished -- weather_data gives the explicit no-data result
\* (None), not a SessionWeather of zeros or of undefined numbers.
C25_EmptyWindowNoData ==
    (/\ ui.cmd = "weather_data" /\ previous_session = NoSession
     /\ ForecastDates(weather, current_session) = {}) =>
        ui.ret[2] = NoSessionWeather

\* the manager built with each grid size, under /step alone
AdvanceSpec == ManagerInit /\ [][Step]_vars

\* the days a sector was advanced: one reading is recorded per timestep
DaysAdvanced(sector) == Len(sector.canopy_cover_history)

\* the sectors are at one point of the clock
SameClock(secs) ==
    \A a, b \in DOMAIN secs :
        /\ DaysAdvanced(secs[a]) = DaysAdvanced(secs[b])
        /\ secs[a].model.time_step_counter = secs[b].model.time_step_counter
        /\ secs[a].model.step_start_time = secs[b].model.step_start_time
        /\ secs[a].model.season_counter = secs[b].model.season_counter
        /\ secs[a].model.model_is_finished = secs[b].model.model_is_finished

\* one pass of the inner loop of step_simulation, for the sector id: the
\* sectors after it.  ok: before the pass no sector was behind the sector of
\* the pass, unless that sector is finished and skipped, and after it no two
\* sectors are more than one day apart.
PassResult(secs, after, id) ==
    [ok |-> /\ \/ secs[id].model.model_is_finished
               \/ \A b \in DOMAIN secs :
                      DaysAdvanced(secs[b]) >= DaysAdvanced(secs[id])
            /\ \A b \in DOMAIN after :
                   /\ DaysAdvanced(after[b]) - DaysAdvanced(after[id]) <= 1
                   /\ DaysAdvanced(after[id]) - DaysAdvanced(after[b]) <= 1,
     sectors |-> after]

Pass(secs, dry, id) ==
    PassResult(secs, [secs EXCEPT ![id] = StepSector(secs[id], dry)], id)

\* the passes of one day, from the j-th sector of the dict on
RECURSIVE DayPasses(_, _, _, _)
DayPasses(walk, dry, order, j) ==
    IF j > Len(order) \/ ~walk.ok THEN walk
    ELSE DayPasses(Pass(walk.sectors, dry, order[j]), dry, order, j + 1)

\* the passes of the days of step_simulation, in the order of its two loops
RECURSIVE StepPasses(_, _, _, _)
StepPasses(walk, dry, order, days) ==
    IF days <= 0 \/ ~walk.ok THEN walk
    ELSE StepPasses(DayPasses(walk, dry, order, 1), dry, order, days - 1)

\* the passes kept the sectors within a day of each other and left them as
\* the /step did
InLockstep(walk) == walk.ok /\ walk.sectors = sectors'

\* C27: lockstep -- between commands all sectors have been advanced the same
\* number of days and have the same date, season and finished flag, so the
\* clock of the first sector is the clock of the grid; inside step_simulation
\* no two sectors are more than one day apart, and no sector starts a day
\* before every unfinished sector has completed the day before.
C27_Lockstep ==
    /\ [](/\ SameClock(sectors)
          /\ current_session = get_session_date(sectors)
          /\ \A id \in DOMAIN sectors :
                 sectors[id].model.step_start_time = current_session)
    /\ [][ ui'.cmd = "step" =>
             InLockstep(StepPasses([ok |-> TRUE, sectors |-> sectors], dry_sectors,
                                   SectorOrder(grid_size), session_days)) ]_vars

\* a /step took the six sectors of the 2 x 3 farm, two of them with the bad
\* soil, from day 30 to the end of the simulation together
C27_Witness ==
    /\ ui.cmd = "step" /\ grid_size = <<2, 3>>
    /\ AllFinished
    /\ \A id \in DOMAIN sectors :
          /\ DaysAdvanced(sectors[id]) > session_days
          /\ DaysAdvanced(sectors[id]) < 2 * session_days
          /\ sectors[id].model.step_start_time = SimEndDay
    /\ \E a, b \in DOMAIN sectors :
          sectors[a].model.th # sectors[b].model.th

\* the timesteps performed on the sectors of the ids, all together
RECURSIVE TotalAdvanced(_, _)
TotalAdvanced(secs, ids) ==
    IF ids = <<>> THEN 0
    ELSE DaysAdvanced(secs[Head(ids)]) + TotalAdvanced(secs, Tail(ids))

\* C28: a call of step_simulation(days) performs at most days * (number of
\* sectors) engine timesteps, and with /step typed again and again the grid
\* reaches the state where every sector is finished and stays in it for
\* ever: the clock never passes the end of the simulation, every /step on an
\* unfinished grid finishes it or moves the clock on by at least session_days
\* days, and finished is never undone.
C28_Termination ==
    /\ [](current_session \in 0..SimEndDay)
    /\ [][ /\ ui'.cmd = "step" =>
                 TotalAdvanced(sectors', SectorOrder(grid_size))
                     - TotalAdvanced(sectors, SectorOrder(grid_size))
                   <= session_days * Cardinality(DOMAIN sectors)
           /\ (ui'.cmd = "step" /\ ~AllFinished) =>
                 \/ AllFinished'
                 \/ current_session' >= current_session + session_days
           /\ AllFinished => AllFinished' ]_vars

\* a /step was taken on the finished 4 x 4 farm: the sixteen sectors had
\* their last timestep before it, fewer than 2 * 30 each
C28_Witness ==
    /\ ui.cmd = "step" /\ grid_size = <<4, 4>> /\ AllFinished
    /\ game_state.previous_season = game_state.current_season
    /\ game_state.current_season = 2
    /\ TotalAdvanced(sectors, SectorOrder(grid_size)) > session_days * 16
    /\ TotalAdvanced(sectors, SectorOrder(grid_size)) < 2 * session_days * 16

\* the timesteps an engine has left until it reports finished
RECURSIVE RemainingDays(_)
RemainingDays(m) ==
    IF m.model_is_finished THEN 0 ELSE 1 + RemainingDays(perform_timestep(m))

\* the readings of history from the position first on
ReadingsFrom(history, first) == SubSeq(history, first, Len(history))

\* C29: the history of a sector grows by one reading per day the sector is
\* advanced -- after a /step from a state with r days left until finish the
\* history of every sector is its old history followed by min(session_days, r)
\* new readings, the last of them the canopy cover the sector has now; and
\* the length of a history is always the number of timesteps performed on
\* the sector.
C29_HistoryGrowth ==
    /\ [](\A id \in DOMAIN sectors :
             DaysAdvanced(sectors[id]) = sectors[id].model.time_step_counter)
    /\ [][ ui'.cmd = "step" =>
             \A id \in DOMAIN sectors :
                 LET old == sectors[id].canopy_cover_history
                     new == sectors'[id].canopy_cover_history
                     r   == RemainingDays(sectors[id].model)
                     k   == IF r < session_days THEN r ELSE session_days
                 IN /\ Len(new) = Len(old) + k
                    /\ SubSeq(new, 1, Len(old)) = old
                    /\ k > 0 => new[Len(new)] = sectors'[id].model.canopy_cover ]_vars

\* the second /step of the 2 x 2 farm: the simulation ended before the 30
\* days were over, so the histories hold the 30 readings of the first /step
\* and fewer than 30 new ones, the growth of the first days among them
C29_Witness ==
    /\ ui.cmd = "step" /\ grid_size = <<2, 2>> /\ AllFinished
    /\ \A id \in DOMAIN sectors :
          /\ DaysAdvanced(sectors[id]) > session_days
          /\ DaysAdvanced(sectors[id]) < 2 * session_days
          /\ sectors[id].canopy_cover_history[session_days] > 0
          /\ ReadingsFrom(sectors[id].canopy_cover_history, session_days + 1) # <<>>

\* the sectors of the list dry_sectors
DrySectorSet == {dry_sectors[k] : k \in 1..Len(dry_sectors)}

\* C30: initialize_farm gives the soil penalty to exactly two distinct
\* sectors of the grid, the two it builds with the bad soil, and the
\* penalised sectors stay the same under every /step, task add and task
\* remove.
C30_PenaltySet ==
    /\ [](/\ Len(dry_sectors) = DrySectorCount
          /\ Cardinality(DrySectorSet) = DrySectorCount
          /\ DrySectorSet \subseteq DOMAIN sectors
          /\ DrySectorSet = {id \in DOMAIN sectors : sectors[id].model.soil = "Sand"})
    /\ [][dry_sectors' = dry_sectors]_vars

\* after a /step, a task add and a task remove the sectors A1 and A3 are the
\* penalised ones, and they lost water the sector A2 kept
C30_Witness ==
    /\ ui.cmd = "remove" /\ ui.ret = True
    /\ next_task_id = 2
    /\ current_session = session_days
    /\ dry_sectors = <<SectorId(0, 0), SectorId(0, 2)>>
    /\ sectors[SectorId(0, 0)].model.th < sectors[SectorId(0, 1)].model.th
    /\ sectors[SectorId(0, 2)].model.th < sectors[SectorId(0, 1)].model.th

\* C31: refund underflow is unreachable -- in every reachable state the cost
\* of each pending task is at most activity_points_used, so for every task
\* remove_task can remove, used - cost is not negative and the max(0, ...) of
\* the refund gives used - cost itself.
C31_NoRefundUnderflow ==
    \A i \in 1..Len(tasks) :
        /\ tasks[i].cost <= used
        /\ RefundActivityPoints(game_state, tasks[i].cost).activity_points_used
               = used - tasks[i].cost

\* a remove refunded the whole of the points used: the one task pending cost
\* as much as was used, and the refund landed on 0 without the clamp
C31_Witness ==
    /\ ui.cmd = "remove" /\ ui.ret = True
    /\ tasks = <<>> /\ used = 0 /\ next_task_id = 2

\* the pending tasks, each with its own added_date
TasksWithOwnDates(ts) ==
    [i \in 1..Len(ts) |-> <<ts[i].added_date, ts[i].description>>]

C33_OneEntryPerStep ==
    [][ ui'.cmd = "step" =>
          IF tasks # <<>>
          THEN /\ Len(entries') = Len(entries) + 1
               /\ SubSeq(entries', 1, Len(entries)) = entries
          ELSE entries' = entries ]_vars

\* the first /step, with two tasks pending, made the one entry of the
\* journal, and the second /step, with none pending, left the journal as it was
C33_Witness ==
    /\ ui.cmd = "step" /\ tasks = <<>>
    /\ Len(entries) = 1 /\ Len(entries[1].tasks) = 2
    /\ entries[1].date_str = strftime(0)
    /\ current_session > session_days

(***************************************************************************)
(* The task list filled to the limit: the game played with ids enough for  *)
(* a fifth task to be asked for while four are pending.                    *)
(***************************************************************************)
\* ids handed out before no further "/task add" is typed
MaxQueuedId == MaxTaskId + 2

\* what the user may type after "/task add ": a task of cost 1, one of cost 2
QueueAddCommands == { <<"investigate", "a1">>, <<"Irrigate", "a1", "010">> }

\* what the user may type after "/task remove ": the ids handed out, and one
\* that was not
QueueRemoveCommands == { <<"t", n>> : n \in 1..(MaxQueuedId + 1) }

QueueTaskAdd == \E parts \in QueueAddCommands :
                   /\ next_task_id <= MaxQueuedId
                   /\ handle_task_add(parts)

QueueTaskRemove == \E arg \in QueueRemoveCommands : handle_task_remove(arg)

QueueNext == QueueTaskAdd \/ QueueTaskRemove \/ Step

QueueSpec == Init /\ [][QueueNext]_vars

\* C34: in every reachable state the pending tasks have pairwise distinct
\* ids, stand in the list in strictly increasing order of id, every pending id
\* is smaller than next_task_id, and the list holds at most 4 tasks.
C34_QueueShape ==
    /\ \A i, j \in 1..Len(tasks) : i # j => tasks[i].id # tasks[j].id
    /\ \A i, j \in 1..Len(tasks) : i < j => tasks[i].id[2] < tasks[j].id[2]
    /\ \A i \in 1..Len(tasks) :
          /\ tasks[i].id[1] = "T"
          /\ tasks[i].id[2] < next_task_id
    /\ Len(tasks) <= 4

\* four tasks of cost 1 are pending, T1 to T4 in this order; a fifth task
\* was asked for and refused
C34_Witness ==
    /\ Len(tasks) = 4
    /\ tasks[1].id = TaskIdStr(1) /\ tasks[4].id = TaskIdStr(4)
    /\ next_task_id = 5 /\ ui.cmd = "add" /\ ui.ret = False

\* the water content after the penalty of n days
RECURSIVE Shrunk(_, _)
Shrunk(th, n) == IF n <= 0 THEN th ELSE Shrunk((th * taw_keep_percent) \div 100, n - 1)

\* C35: step_simulation writes the stored water content th of a sector only
\* when the sector is in dry_sectors and its engine is not finished -- a
\* sector that is not in dry_sectors keeps the th it had, a finished sector of
\* dry_sectors is not shrunk any further by a later step_simulation, and an
\* unfinished sector of dry_sectors is shrunk once for each day it is advanced.
C35_WaterWrites ==
    [][ \A id \in DOMAIN sectors :
          LET m    == sectors[id].model
              n    == sectors'[id].model
              days == n.time_step_counter - m.time_step_counter
          IN /\ ~InDrySectors(id, dry_sectors) => n.th = m.th
             /\ m.model_is_finished => n.th = m.th
             /\ (InDrySectors(id, dry_sectors) /\ ~m.model_is_finished) =>
                   /\ days > 0
                   /\ n.th = Shrunk(m.th, days)
                   /\ n.th < m.th ]_vars

\* a /step was taken on the finished 3 x 2 farm: the two sectors of the bad
\* soil keep the water the penalty left them when they finished, the four
\* others the water they were built with
C35_Witness ==
    /\ ui.cmd = "step" /\ grid_size = <<3, 2>> /\ AllFinished
    /\ game_state.previous_season = game_state.current_season
    /\ \A id \in DOMAIN sectors :
          IF InDrySectors(id, dry_sectors)
          THEN sectors[id].model.th
                  = Shrunk(InitialTh, sectors[id].model.time_step_counter)
          ELSE sectors[id].model.th = InitialTh
    /\ \E id \in DOMAIN sectors : sectors[id].model.th < InitialTh

\* C36: in every reachable state, so after construction and after every
\* /step, the date and the season of the game state are the date and the
\* season the manager reports for its sectors; a task add and a task remove
\* leave the date and the season of the game state as they were, and leave
\* every sector, the session dates and the dry sectors of the manager as
\* they were.
C36_ClockInStep ==
    /\ [] /\ game_state.date_str = get_current_date(sectors)
          /\ game_state.current_season = get_current_season(sectors)
          /\ game_state.season_str = <<"Season", get_current_season(sectors)>>
          /\ current_session = get_session_date(sectors)
    /\ [][ ui'.cmd \in {"add", "remove"} =>
             /\ game_state'.date_str = game_state.date_str
             /\ game_state'.season_str = game_state.season_str
             /\ game_state'.current_season = game_state.current_season
             /\ game_state'.previous_season = game_state.previous_season
             /\ UNCHANGED <<sectors, dry_sectors, previous_session,
                            current_session, grid_size, weather>> ]_vars

\* a task was added in the second season, after the /step that passed the
\* harvest: the game state shows the date of the session the sectors are at
C36_Witness ==
    /\ ui.cmd = "add" /\ ui.ret = True
    /\ game_state.current_season = 2
    /\ get_current_season(sectors) = 2
    /\ current_session > session_days
    /\ game_state.date_str = strftime(current_session)
    /\ game_state.date_str # strftime(0)

=============================================================================
